---------------------------- MODULE Spec2Model ----------------------------
(***************************************************************************)
(* A model of the PNG decoder: the chunk codec and its CRC-32, the         *)
(* ChunkReader bridge that exposes the payload of a run of IDAT chunks as  *)
(* one byte stream, read_chunks, PngParser and PngColor.                   *)
(*                                                                         *)
(* Conventions.  A byte is an integer 0..255.  A u32 is held as its four   *)
(* big-endian bytes <<b3, b2, b1, b0>> (TLC's integers are 32-bit signed,  *)
(* so a u32 does not fit in one); the bitwise operations of the source are *)
(* done on that form.  Rust slices are 0-based and half open, sequences    *)
(* here are 1-based: buf[a..b] of the source is SubSeq(buf, a + 1, b).     *)
(* A usize that has wrapped below zero (a release build) is held as the    *)
(* negative number v - 2^64, which is exact for every operation the code   *)
(* applies to it within the sizes of the model.                            *)
(***************************************************************************)
EXTENDS Integers, Sequences, FiniteSets, TLC

VARIABLES
    src,        \* the bytes of the underlying reader R (fixed once chosen)
    pos,        \* the reader's cursor: bytes of src consumed so far
    phase,      \* which operation runs next / how the object ended
    leftover,   \* ChunkReader.leftover
    crc,        \* ChunkReader.crc (running state, four bytes)
    out,        \* bytes the caller got from successful reads, in order
    res,        \* the result of the last call
    hist,       \* history of the run: the facts the properties speak about
    input,      \* the structured input src was built from
    parser,     \* PngParser's fields once constructed
    rows        \* PngParser::parse: progress of the row loop

vars == <<src, pos, phase, leftover, crc, out, res, hist, input, parser, rows>>

----------------------------------------------------------------------------
(* Bounds of the model *)

\* most IDAT chunks in a stream handed to the bridge
MaxChunks == 2
\* longest declared IDAT payload in such a stream
MaxLen == 2
\* largest caller buffer handed to ChunkReader::read
MaxBuf == 26
\* how far behind the first IDAT header the source may end early
MaxTrunc == 3
\* most bytes in a row handed to PngColor::parse
MaxData == 4
\* largest image width and height handed to PngParser::parse
MaxWidth == 2
MaxHeight == 2
\* largest filter-type byte in a scanline
MaxFilter == 5
\* most chunks between IHDR and the first IDAT
MaxMiddle == 2

----------------------------------------------------------------------------
(* Bytes, bits and u32 values *)

Byte == 0..255

Min(a, b) == IF a < b THEN a ELSE b

RECURSIVE Pow2(_)
Pow2(n) == IF n = 0 THEN 1 ELSE 2 * Pow2(n - 1)

RECURSIVE BitXor(_, _)
BitXor(a, b) ==
    IF a = 0 THEN b
    ELSE IF b = 0 THEN a
    ELSE ((a + b) % 2) + 2 * BitXor(a \div 2, b \div 2)

RECURSIVE BitAnd(_, _)
BitAnd(a, b) ==
    IF a = 0 \/ b = 0 THEN 0
    ELSE ((a % 2) * (b % 2)) + 2 * BitAnd(a \div 2, b \div 2)

RECURSIVE BitOr(_, _)
BitOr(a, b) ==
    IF a = 0 THEN b
    ELSE IF b = 0 THEN a
    ELSE (IF a % 2 = 1 \/ b % 2 = 1 THEN 1 ELSE 0) + 2 * BitOr(a \div 2, b \div 2)

\* u32 ^ u32
Xor32(a, b) ==
    <<BitXor(a[1], b[1]), BitXor(a[2], b[2]), BitXor(a[3], b[3]), BitXor(a[4], b[4])>>

\* u32 >> 1
Shr1(a) ==
    <<a[1] \div 2,
      (a[2] \div 2) + 128 * (a[1] % 2),
      (a[3] \div 2) + 128 * (a[2] % 2),
      (a[4] \div 2) + 128 * (a[3] % 2)>>

\* u32 >> 8
Shr8(a) == <<0, a[1], a[2], a[3]>>

\* u32::MAX
U32_MAX == <<255, 255, 255, 255>>

\* u32::from_be_bytes as a number; only for values below 2^31
u32_from_be_bytes(b) == ((b[1] * 256 + b[2]) * 256 + b[3]) * 256 + b[4]

\* a > b on u32 values
U32Gt(a, b) ==
    \E i \in 1..4 : a[i] > b[i] /\ \A j \in 1..(i - 1) : a[j] = b[j]

\* the four big-endian bytes of a number below 2^31
BeBytes(n) ==
    <<n \div 16777216, (n \div 65536) % 256, (n \div 256) % 256, n % 256>>

Zeros(n) == [i \in 1..n |-> 0]

----------------------------------------------------------------------------
(* Checksum engine: chunk.rs *)

\* 0xedb88320
CRC_POLY == <<237, 184, 131, 32>>

RECURSIVE crc_table_entry(_, _)
crc_table_entry(c, k) ==
    IF k = 8 THEN c
    ELSE IF c[4] % 2 = 1
         THEN crc_table_entry(Xor32(CRC_POLY, Shr1(c)), k + 1)
         ELSE crc_table_entry(Shr1(c), k + 1)

make_crc_table == [n \in 0..255 |-> crc_table_entry(<<0, 0, 0, n>>, 0)]

CRC_TABLE == make_crc_table

\* one step of the table-driven update
CrcStep(c, b) == Xor32(CRC_TABLE[BitXor(c[4], b)], Shr8(c))

\* the update loop "for &b in bytes" over bytes[lo..hi]: the state after a run
\* of bytes is the state after its right half, started from the state after
\* its left half (which the test evaluates before the right half is folded in)
RECURSIVE CrcFrom(_, _, _, _)
CrcFrom(c, bytes, lo, hi) ==
    IF lo > hi THEN c
    ELSE IF lo = hi THEN CrcStep(c, bytes[lo])
    ELSE LET mid == (lo + hi) \div 2
             left == CrcFrom(c, bytes, lo, mid)
         IN  IF Len(left) = 4 THEN CrcFrom(left, bytes, mid + 1, hi) ELSE left

CrcUpdate(c, bytes) == CrcFrom(c, bytes, 1, Len(bytes))

\* a checksum over the kind alone, where Chunk::crc goes on over the data
ChunkCrcKindOnly(kind, data) == Xor32(CrcUpdate(U32_MAX, kind), U32_MAX)

\* Chunk::crc
ChunkCrc(kind, data) == Xor32(CrcUpdate(CrcUpdate(U32_MAX, kind), data), U32_MAX)

----------------------------------------------------------------------------
(* Chunk kinds: chunk_kind.rs *)

IHDR == <<73, 72, 68, 82>>
PLTE == <<80, 76, 84, 69>>
IDAT == <<73, 68, 65, 84>>
IEND == <<73, 69, 78, 68>>

\* 0b100000
SIG_BIT == 32

critical(kind) == BitAnd(kind[1], SIG_BIT) = 0

\* TryFrom<&[u8; 4]> for ChunkKind: TRUE when the conversion is Ok
ChunkKindOk(value) ==
    \A i \in 1..4 :
        LET v == value[i]
        IN  (v >= 65 /\ v <= 90) \/ (v >= 97 \/ v <= 122)


----------------------------------------------------------------------------
(* Results of a call *)

NoResult == [tag |-> "none", n |-> 0, err |-> "", msg |-> ""]
Ok(n) == [tag |-> "ok", n |-> n, err |-> "", msg |-> ""]
Err(kind, msg) == [tag |-> "err", n |-> 0, err |-> kind, msg |-> msg]
Panic(msg) == [tag |-> "panic", n |-> 0, err |-> "", msg |-> msg]

\* the error read_exact gives when the source ends first
Eof == Err("UnexpectedEof", "failed to fill whole buffer")

\* R::read_exact(n bytes) at cursor p: the bytes, or too few left
CanReadExact(p, n) == n <= Len(src) - p
Peek(p, n) == SubSeq(src, p + 1, p + n)

----------------------------------------------------------------------------
(* The streams handed to the bridge: a run of IDAT chunks, then IEND *)

\* payload byte j (from 1) of IDAT chunk i (from 1): all distinct
DataByte(i, j) == (120 + 40 * i + j) % 256

Payload(lens, i) == [j \in 1..lens[i] |-> DataByte(i, j)]

\* the stored CRC of chunk i: the right one, or one with a bit flipped
StoredCrc(lens, corrupt, i) ==
    LET good == ChunkCrc(IDAT, Payload(lens, i))
    IN  IF corrupt = i THEN Xor32(good, <<0, 0, 0, 1>>) ELSE good

\* length, kind, data, crc
SerializeIdat(lens, corrupt, i) ==
    BeBytes(lens[i]) \o IDAT \o Payload(lens, i) \o StoredCrc(lens, corrupt, i)

RECURSIVE SerializeRun(_, _, _)
SerializeRun(lens, corrupt, i) ==
    IF i > Len(lens) THEN <<>>
    ELSE SerializeIdat(lens, corrupt, i) \o SerializeRun(lens, corrupt, i + 1)

IendChunk == <<0, 0, 0, 0>> \o IEND \o ChunkCrc(IEND, <<>>)

FullStream(lens, corrupt) == SerializeRun(lens, corrupt, 1) \o IendChunk

\* the concatenated payloads of chunks 1..k
RECURSIVE PayloadsUpTo(_, _)
PayloadsUpTo(lens, k) ==
    IF k = 0 THEN <<>> ELSE PayloadsUpTo(lens, k - 1) \o Payload(lens, k)

AllPayloads(lens) == PayloadsUpTo(lens, Len(lens))

\* offset in the stream of the end of chunk k's body (its CRC starts there)
RECURSIVE BodyEnd(_, _)
BodyEnd(lens, k) ==
    IF k = 0 THEN -4 ELSE BodyEnd(lens, k - 1) + 4 + 8 + lens[k]

\* offset of the end of the IEND header (length and kind)
IendHeaderEnd(lens) == BodyEnd(lens, Len(lens)) + 4 + 8

LenSeqs == UNION {[1..n -> 0..MaxLen] : n \in 1..MaxChunks}

\* the bridge's inputs: the declared lengths, the chunk whose stored CRC is wrong
\* (0: none), and where the source ends (keep: number of bytes it holds)
BridgeInputs ==
    {[lens |-> l, corrupt |-> c, keep |-> k] :
        l \in LenSeqs, c \in 0..MaxChunks, k \in 8..(8 + MaxTrunc + 1)}

BridgeInputOk(i) ==
    /\ i.corrupt <= Len(i.lens)
    /\ i.corrupt # 0 => i.keep = 8 + MaxTrunc + 1

\* keep = 8 + MaxTrunc + 1 stands for the whole stream
BridgeSource(i) ==
    LET full == FullStream(i.lens, i.corrupt)
    IN  IF i.keep = 8 + MaxTrunc + 1 THEN full ELSE SubSeq(full, 1, Min(i.keep, Len(full)))

Truncated(i) == i.keep # 8 + MaxTrunc + 1

----------------------------------------------------------------------------
(* ChunkReader: chunk_reader.rs *)

\* Bytes for CRC + length + kind
BOUND_LEN == 12

\* 3394304481 = 0xCA50F9E1
INITIAL_CRC == <<202, 80, 249, 225>>

is_done == leftover = 0

\* a >= b on usize, b possibly wrapped (negative here: above 2^63)
UsizeGe(a, b) == IF b < 0 THEN FALSE ELSE a >= b

\* 12usize.saturating_sub(x)
SaturatingSub(a, b) == IF b > a THEN 0 ELSE a - b

\* buf[from..to].rotate_left(mid), buf 1-based here: from, to are the 0-based bounds
RotateLeft(buf, from, to, mid) ==
    [i \in 1..Len(buf) |->
        IF i <= from \/ i > to THEN buf[i]
        ELSE LET len == to - from
                 j == i - from - 1
             IN  buf[from + 1 + ((j + mid) % len)]]

\* buf[from..to].fill(0)
FillZero(buf, from, to) ==
    [i \in 1..Len(buf) |-> IF i > from /\ i <= to THEN 0 ELSE buf[i]]

\* the boundary cleared where it lies, the bytes behind it not moved up
MoveBoundaryNoRotate(buf, cb_start, cb_end, bc, to_read) ==
    FillZero(buf, bc - (cb_end - cb_start), bc)

\* lines 85-87: move the chunk boundary to the end and clear it
MoveBoundary(buf, cb_start, cb_end, bc, to_read) ==
    FillZero(RotateLeft(buf, cb_start, bc, BOUND_LEN - to_read),
             bc - (cb_end - cb_start), bc)

\* lines 93-96 and 126-129: the running crc over buf[from..to]
RunCrc(c, buf, from, to) == CrcUpdate(c, SubSeq(buf, from + 1, to))

\* line 98: the stored crc against the running one
CrcMismatch(found_crc, c) == found_crc # Xor32(c, U32_MAX)

\* ChunkReader::new
New ==
    /\ phase = "new"
    /\ IF ~CanReadExact(pos, 4)
       THEN /\ pos' = Len(src)
            /\ res' = Eof
            /\ phase' = "failed"
            /\ UNCHANGED <<leftover, crc>>
       ELSE IF ~CanReadExact(pos + 4, 4)
       THEN /\ pos' = Len(src)
            /\ res' = Eof
            /\ phase' = "failed"
            /\ UNCHANGED <<leftover, crc>>
       ELSE LET len == u32_from_be_bytes(Peek(pos, 4))
                kind == Peek(pos + 4, 4)
            IN  /\ pos' = pos + 8
                /\ IF ~ChunkKindOk(kind)
                   THEN /\ res' = Err("InvalidData", "Invalid chunk type")
                        /\ phase' = "failed"
                        /\ UNCHANGED <<leftover, crc>>
                   ELSE IF kind = IDAT \/ kind = IEND
                   THEN /\ leftover' = (IF kind = IEND THEN 0 ELSE len)
                        /\ crc' = INITIAL_CRC
                        /\ res' = Ok(0)
                        /\ phase' = "open"
                   ELSE /\ res' = Panic("Unexpected chunk kind in chunk reader")
                        /\ phase' = "panicked"
                        /\ UNCHANGED <<leftover, crc>>
    /\ hist' = [hist EXCEPT !.lastOp = "new"]
    /\ UNCHANGED <<src, out, input, parser, rows>>

\* The while loop of ChunkReader::read, lines 68-123.  s holds the locals (buf,
\* bc, used), the fields (leftover, crc), the reader's cursor p, and how the
\* call goes on: "run" while in the loop and after it, else the early return.
RECURSIVE ReadLoop(_)
ReadLoop(s) ==
    IF ~(s.leftover # 0 /\ UsizeGe(s.bc - s.used, s.leftover)) THEN s
    ELSE
    LET cb_start == s.leftover + s.used
        cb_end == Min(cb_start + BOUND_LEN, s.bc)
        to_read == SaturatingSub(BOUND_LEN, s.bc - cb_start)
    IN  IF to_read > 0 /\ ~CanReadExact(s.p, to_read)
        THEN [s EXCEPT !.p = Len(src), !.ret = Eof]
        ELSE
        LET chunk_bound == SubSeq(s.buf, cb_start + 1, cb_end) \o Peek(s.p, to_read)
            p1 == s.p + to_read
            buf1 == MoveBoundary(s.buf, cb_start, cb_end, s.bc, to_read)
            bc1 == s.bc - (cb_end - cb_start)
            crc1 == RunCrc(s.crc, buf1, s.used, cb_start)
            found_crc == SubSeq(chunk_bound, 1, 4)
        IN  IF CrcMismatch(found_crc, crc1)
            THEN [s EXCEPT !.buf = buf1, !.bc = bc1, !.p = p1, !.crc = crc1,
                           !.leftover = 0,
                           !.ret = Err("InvalidData", "Mismatched crc")]
            ELSE
            LET used1 == s.used + s.leftover
                len == u32_from_be_bytes(SubSeq(chunk_bound, 5, 8))
                kind == SubSeq(chunk_bound, 9, 12)
                s1 == [s EXCEPT !.buf = buf1, !.bc = bc1, !.p = p1, !.used = used1,
                                !.crc = INITIAL_CRC, !.leftover = len]
            IN  IF ~ChunkKindOk(kind)
                THEN [s1 EXCEPT !.ret = Err("InvalidData", "Invalid chunk type")]
                ELSE IF kind = IDAT THEN ReadLoop(s1)
                ELSE IF kind = IEND
                THEN ReadLoop([s1 EXCEPT !.leftover = 0, !.bc = used1])
                ELSE [s1 EXCEPT !.ret = Panic("Unexpected chunk kind in chunk reader")]

\* ChunkReader::read past its first test, with a buffer of n bytes of which the
\* underlying reader fills k
ReadCall(n, k) ==
    ReadLoop([buf |-> Peek(pos, k) \o Zeros(n - k), bc |-> k, used |-> 0,
              leftover |-> leftover, crc |-> crc, p |-> pos + k,
              ret |-> NoResult])

\* line 131 on usize: the subtraction overflows
SubOverflows(a, b) == a >= 0 /\ a < b

\* How a call that left the loop ends, lines 125-132, or the early return
ReadEnd(s, wraps) ==
    IF s.ret.tag # "none"
    THEN /\ pos' = s.p
         /\ leftover' = s.leftover
         /\ crc' = s.crc
         /\ res' = s.ret
         /\ phase' = (IF s.ret.tag = "panic" THEN "panicked" ELSE "open")
         /\ out' = out
    ELSE LET n == s.bc - s.used
         IN  /\ pos' = s.p
             /\ crc' = RunCrc(s.crc, s.buf, s.used, s.bc)
             /\ IF SubOverflows(s.leftover, n) /\ ~wraps
                THEN /\ res' = Panic("attempt to subtract with overflow")
                     /\ phase' = "panicked"
                     /\ leftover' = s.leftover
                     /\ out' = out
                ELSE /\ res' = Ok(s.bc)
                     /\ phase' = "open"
                     /\ leftover' = s.leftover - n
                     /\ out' = out \o SubSeq(s.buf, 1, s.bc)

\* what R::read may return for a buffer of n bytes: some of what is left, and 0
\* only at the end of the source
SourceReads(n) ==
    IF pos >= Len(src) THEN {0} ELSE 1..Min(n, Len(src) - pos)

\* ChunkReader::read without the early return of lines 62-64
ReadPastDone ==
    /\ phase = "open"
    /\ \E k \in SourceReads(MaxBuf) :
           LET s == ReadCall(IF k = 0 THEN 1 ELSE k, k)
               over == s.ret.tag = "none" /\ SubOverflows(s.leftover, s.bc - s.used)
           IN  \E wraps \in (IF over THEN BOOLEAN ELSE {FALSE}) :
                   /\ ReadEnd(s, wraps)
                   /\ hist' = [hist EXCEPT !.lastOp = "read",
                                           !.crcFailed = @ \/ s.ret.msg = "Mismatched crc"]
    /\ UNCHANGED <<src, input, parser, rows>>

\* ChunkReader::read with a buffer of n >= 1 bytes.  The call touches buf[..bc]
\* only, bc being what R::read returned, so the outcome for n and k is the one
\* for a buffer of k bytes (of 1 byte when the source is at its end).
Read ==
    /\ phase = "open"
    /\ IF leftover = 0
       THEN /\ res' = Ok(0)
            /\ hist' = [hist EXCEPT !.lastOp = "read"]
            /\ UNCHANGED <<pos, phase, leftover, crc, out>>
       ELSE \E k \in SourceReads(MaxBuf) :
                LET s == ReadCall(IF k = 0 THEN 1 ELSE k, k)
                    over == s.ret.tag = "none" /\ SubOverflows(s.leftover, s.bc - s.used)
                IN  \E wraps \in (IF over THEN BOOLEAN ELSE {FALSE}) :
                        /\ ReadEnd(s, wraps)
                        /\ hist' = [hist EXCEPT !.lastOp = "read",
                                                !.crcFailed = @ \/ s.ret.msg = "Mismatched crc"]
    /\ UNCHANGED <<src, input, parser, rows>>

NoHist == [lastOp |-> "none", crcFailed |-> FALSE]

Idle == <<>>

InitBridge ==
    \E i \in BridgeInputs :
        /\ BridgeInputOk(i)
        /\ input = i
        /\ src = BridgeSource(i)
        /\ pos = 0
        /\ phase = "new"
        /\ leftover = 0
        /\ crc = INITIAL_CRC
        /\ out = <<>>
        /\ res = NoResult
        /\ hist = NoHist
        /\ parser = Idle
        /\ rows = Idle

NextBridge == New \/ Read

SpecBridge == InitBridge /\ [][NextBridge]_vars

----------------------------------------------------------------------------
(* Properties of the bridge *)

IsPrefix(a, b) == Len(a) <= Len(b) /\ a = SubSeq(b, 1, Len(a))

\* a whole stream of IDAT chunks with right CRCs, then IEND
WellFormed(i) == i.corrupt = 0 /\ ~Truncated(i)

NonZeroLens(i) == \A c \in 1..Len(i.lens) : i.lens[c] > 0

\* C1: on a whole stream of IDAT chunks of non-zero length with right CRCs, then
\* IEND, whatever the buffer sizes and however the source splits its reads, no
\* call fails, what the caller has got is always a prefix of the concatenated
\* IDAT payloads (no length, kind or CRC byte, nothing behind the IEND header),
\* and when read first returns Ok(0) it is all of them.
C1_BridgeDeliversPayloads ==
    (WellFormed(input) /\ NonZeroLens(input)) =>
        /\ res.tag \in {"none", "ok"}
        /\ phase \in {"new", "open"}
        /\ IsPrefix(out, AllPayloads(input.lens))
        /\ (hist.lastOp = "read" /\ res = Ok(0)) => out = AllPayloads(input.lens)

\* two chunks of two bytes each were delivered and read has returned Ok(0)
C1_Witness ==
    /\ WellFormed(input) /\ NonZeroLens(input)
    /\ Len(input.lens) = 2
    /\ hist.lastOp = "read" /\ res = Ok(0)
    /\ Len(out) = 4
    /\ out = AllPayloads(input.lens)

\* C2: when the stored CRC of IDAT chunk k is wrong, the read call in which the
\* source cursor reaches the end of chunk k's body returns an InvalidData error,
\* and the caller never gets a payload byte of a later chunk.
C2_CorruptChunkIsRejected ==
    [][(input.corrupt # 0 /\ phase = "open") =>
          /\ (pos < BodyEnd(input.lens, input.corrupt)
                /\ pos' >= BodyEnd(input.lens, input.corrupt))
             => (res'.tag = "err" /\ res'.err = "InvalidData")
          /\ IsPrefix(out', PayloadsUpTo(input.lens, input.corrupt))]_vars

\* C3: once a read has returned the CRC-mismatch error, the result of every
\* later read is an error.
C3_NoReadSucceedsAfterMismatch ==
    hist.crcFailed => res.tag = "err"

\* C4: on a whole stream of IDAT chunks with right CRCs of any lengths, zero
\* included, then IEND, the bridge is done only once the source cursor is past
\* the IEND header and all the IDAT payloads have been delivered.
C4_DoneOnlyAtTerminator ==
    (WellFormed(input) /\ phase = "open" /\ is_done) =>
        /\ pos >= IendHeaderEnd(input.lens)
        /\ out = AllPayloads(input.lens)

Spec == SpecBridge

----------------------------------------------------------------------------
(* Chunk codec and read_chunks: chunk.rs, intermediate.rs *)

\* 2u32.pow(31) - 1
MAX_CHUNK_LENGTH == <<127, 255, 255, 255>>

PNG_SIG == <<137, 80, 78, 71, 13, 10, 26, 10>>

\* Chunk::new
NewChunk(kind, data) == [kind |-> kind, data |-> data]

\* Chunk::read with the reader's cursor at p: the result, the chunk when it is
\* Ok, and the cursor afterwards
ChunkRead(p) ==
    IF ~CanReadExact(p, 4)
    THEN [ret |-> Eof, chunk |-> NewChunk(<<>>, <<>>), p |-> Len(src)]
    ELSE
    LET len == Peek(p, 4)
    IN  IF U32Gt(len, MAX_CHUNK_LENGTH)
        THEN [ret |-> Err("InvalidData", "Chunk length too long"),
              chunk |-> NewChunk(<<>>, <<>>), p |-> p + 4]
        ELSE IF ~CanReadExact(p + 4, 4)
        THEN [ret |-> Eof, chunk |-> NewChunk(<<>>, <<>>), p |-> Len(src)]
        ELSE
        LET kind == Peek(p + 4, 4)
            n == u32_from_be_bytes(len)
        IN  IF ~ChunkKindOk(kind)
            THEN [ret |-> Err("InvalidData", "Invalid chunk type"),
                  chunk |-> NewChunk(<<>>, <<>>), p |-> p + 8]
            ELSE IF ~CanReadExact(p + 8, n)
            THEN [ret |-> Eof, chunk |-> NewChunk(<<>>, <<>>), p |-> Len(src)]
            ELSE IF ~CanReadExact(p + 8 + n, 4)
            THEN [ret |-> Eof, chunk |-> NewChunk(<<>>, <<>>), p |-> Len(src)]
            ELSE
            LET data == Peek(p + 8, n)
                stored == Peek(p + 8 + n, 4)
                expected_crc == ChunkCrc(kind, data)
            IN  IF expected_crc # stored
                THEN [ret |-> Err("InvalidData", "Mismatched crc values"),
                      chunk |-> NewChunk(<<>>, <<>>), p |-> p + 12 + n]
                ELSE [ret |-> Ok(0), chunk |-> NewChunk(kind, data), p |-> p + 12 + n]

\* iter::from_fn(|| Some(Chunk::read(..))).take_while(ok and not IEND), from
\* cursor p: the items that pass, and the cursor when the iterator stops
RECURSIVE TakeChunks(_)
TakeChunks(p) ==
    LET r == ChunkRead(p)
    IN  IF r.ret.tag = "ok" /\ r.chunk.kind # IEND
        THEN LET rest == TakeChunks(r.p)
             IN  [items |-> <<r.chunk>> \o rest.items, p |-> rest.p]
        ELSE [items |-> <<>>, p |-> r.p]

\* read_chunks
ReadChunks ==
    /\ phase = "start"
    /\ phase' = "returned"
    /\ IF ~CanReadExact(pos, 8)
       THEN /\ pos' = Len(src)
            /\ res' = Eof
            /\ out' = <<>>
       ELSE IF Peek(pos, 8) # PNG_SIG
       THEN /\ pos' = pos + 8
            /\ res' = Err("InvalidData", "PNG missing signature")
            /\ out' = <<>>
       ELSE LET t == TakeChunks(pos + 8)
                all == t.items \o <<NewChunk(IEND, <<>>)>>
            IN  /\ pos' = t.p
                /\ res' = Ok(Len(all))
                /\ out' = all
    /\ hist' = [hist EXCEPT !.lastOp = "read_chunks"]
    /\ UNCHANGED <<src, leftover, crc, input, parser, rows>>

(* The streams handed to read_chunks: the signature, a first chunk IHDR and
   further chunks IDAT with the payloads above, then IEND; and one fault:
   "crc" (chunk `at` stores a wrong CRC), "len" (chunk `at` declares 2^31),
   "eof" (the source ends one byte before the end of chunk `at`), "sig" (the
   signature is wrong).  Chunk Len(lens) + 1 is IEND. *)

KindOf(i) == IF i = 1 THEN IHDR ELSE IDAT

FaultyChunk(lens, fault, at, i) ==
    LET n == Len(lens)
        kind == IF i = n + 1 THEN IEND ELSE KindOf(i)
        data == IF i = n + 1 THEN <<>> ELSE Payload(lens, i)
        good == ChunkCrc(kind, data)
        whole == (IF fault = "len" /\ at = i THEN <<128, 0, 0, 0>> ELSE BeBytes(Len(data)))
                 \o kind \o data
                 \o (IF fault = "crc" /\ at = i THEN Xor32(good, <<0, 0, 0, 1>>) ELSE good)
    IN  whole

RECURSIVE FaultyRun(_, _, _, _)
FaultyRun(lens, fault, at, i) ==
    IF i > Len(lens) + 1 THEN <<>>
    ELSE IF fault = "eof" /\ at = i
    THEN LET c == FaultyChunk(lens, fault, at, i) IN SubSeq(c, 1, Len(c) - 1)
    ELSE FaultyChunk(lens, fault, at, i) \o FaultyRun(lens, fault, at, i + 1)

PngStream(i) ==
    (IF i.fault = "sig" THEN <<138>> \o SubSeq(PNG_SIG, 2, 8) ELSE PNG_SIG)
    \o FaultyRun(i.lens, i.fault, i.at, 1)

ChunkFaults == {"crc", "len", "eof"}

ChunksInputs ==
    {[lens |-> l, fault |-> f, at |-> a] :
        l \in LenSeqs, f \in ChunkFaults \cup {"none", "sig"}, a \in 0..(MaxChunks + 1)}

ChunksInputOk(i) ==
    IF i.fault \in ChunkFaults THEN i.at \in 1..(Len(i.lens) + 1) ELSE i.at = 0

\* the chunks of the stream in order, up to its IEND
ExpectedChunks(lens) ==
    [i \in 1..(Len(lens) + 1) |->
        IF i = Len(lens) + 1 THEN NewChunk(IEND, <<>>)
        ELSE NewChunk(KindOf(i), Payload(lens, i))]

InitChunks ==
    \E i \in ChunksInputs :
        /\ ChunksInputOk(i)
        /\ input = i
        /\ src = PngStream(i)
        /\ pos = 0
        /\ phase = "start"
        /\ leftover = 0
        /\ crc = INITIAL_CRC
        /\ out = <<>>
        /\ res = NoResult
        /\ hist = NoHist
        /\ parser = Idle
        /\ rows = Idle

NextChunks == ReadChunks

SpecChunks == InitChunks /\ [][NextChunks]_vars

\* C5: read_chunks returns an error whenever reading a chunk up to and including
\* the terminator fails (wrong CRC, declared length above 2^31 - 1, early end of
\* input), and when it returns Ok the list is the chunks of the stream in order
\* up to the first IEND.
C5_ReadChunksAllOrNothing ==
    phase = "returned" =>
        /\ input.fault \in ChunkFaults => res.tag = "err"
        /\ res.tag = "ok" => out = ExpectedChunks(input.lens)

----------------------------------------------------------------------------
(* Sample unpacker: color_kind.rs *)

\* u16::MAX
U16_MAX == 65535

\* ColorKind: Grey(false), Grey(true), True(false), True(true), Indexed
ColorKinds == {"Grey", "GreyAlpha", "True", "TrueAlpha", "Indexed"}

\* Color::new
Color(red, green, blue, alpha) == <<red, green, blue, alpha>>

allowed_bit_depth(kind) ==
    CASE kind = "Grey" -> 31
      [] kind \in {"True", "TrueAlpha", "GreyAlpha"} -> 24
      [] kind = "Indexed" -> 15

channels(kind) ==
    CASE kind = "Grey" -> 1
      [] kind = "GreyAlpha" -> 2
      [] kind = "True" -> 3
      [] kind = "TrueAlpha" -> 4
      [] kind = "Indexed" -> 1

RECURSIVE count_ones(_)
count_ones(v) == IF v = 0 THEN 0 ELSE (v % 2) + count_ones(v \div 2)

\* the test of PngColor::new without its count_ones half
PngColorNewOkAnyBits(kind, depth) ==
    ~(BitAnd(allowed_bit_depth(kind), depth) # depth)

\* PngColor::new: TRUE when it is Ok
PngColorNewOk(kind, depth) ==
    ~(count_ones(depth) # 1 \/ BitAnd(allowed_bit_depth(kind), depth) # depth)

channel_mask(depth) ==
    CASE depth = 16 -> U16_MAX
      [] depth = 8 -> 255
      [] depth = 4 -> 15
      [] depth = 2 -> 3
      [] depth = 1 -> 1

data_len(kind, depth) == channels(kind) * depth

\* u16 << s, the bits above bit 15 lost
Shl16(v, s) == (v * Pow2(s)) % 65536

\* one doubling only, where the source loops while t < 16
NormaliseOnce(channel, t) ==
    IF t < 16 THEN BitOr(channel, Shl16(channel, t)) ELSE channel

\* lines 56-60: channel |= channel << t, t = depth, 2 depth, ... below 16
RECURSIVE Normalise(_, _)
Normalise(channel, t) ==
    IF t < 16 THEN Normalise(BitOr(channel, Shl16(channel, t)), t * 2) ELSE channel

\* lines 44-61: the value pushed for channel c of pixel i
RawChannel(kind, depth, data, i, c) ==
    LET start_bit == (i * data_len(kind, depth)) + (c * depth)
        u16_to_check == start_bit \div 16
        shift == start_bit % 16
        mask == Shl16(channel_mask(depth), shift)
        two == IF Len(data) - u16_to_check >= 2
               THEN <<data[u16_to_check + 1], data[u16_to_check + 2]>>
               ELSE <<data[u16_to_check + 1], 0>>
        d == two[1] * 256 + two[2]
        channel == BitAnd(d, mask) \div Pow2(shift)
    IN  Normalise(channel, depth)

\* lines 41-62: raw, filled for c = channels - 1 down to 0
Raw(kind, depth, data, i) ==
    LET n == channels(kind)
    IN  [x \in 1..n |-> RawChannel(kind, depth, data, i, n - x)]

\* lines 63-69
PixelOf(kind, raw) ==
    CASE kind = "Grey" -> Color(raw[1], raw[1], raw[1], U16_MAX)
      [] kind = "GreyAlpha" -> Color(raw[1], raw[1], raw[1], raw[2])
      [] kind = "True" -> Color(raw[1], raw[2], raw[3], U16_MAX)
      [] kind = "TrueAlpha" -> Color(raw[1], raw[2], raw[3], raw[4])

\* the number of iterations of the pixel loop, line 39
PixelCount(kind, depth, data) == (Len(data) * 8) \div data_len(kind, depth)

\* PngColor::parse: the colours; with Indexed the first iteration hits todo!()
ColorParsePanics(kind, depth, data) ==
    kind = "Indexed" /\ PixelCount(kind, depth, data) > 0

ColorParse(kind, depth, data) ==
    [p \in 1..PixelCount(kind, depth, data) |->
        PixelOf(kind, Raw(kind, depth, data, p - 1))]

\* PngColor::new on the drawn kind and depth
ColorNew ==
    /\ phase = "color"
    /\ IF PngColorNewOk(input.kind, input.depth)
       THEN /\ phase' = "made"
            /\ res' = Ok(0)
       ELSE /\ phase' = "rejected"
            /\ res' = Err("", "Invalid color type/bit depth combination")
    /\ hist' = [hist EXCEPT !.lastOp = "color_new"]
    /\ UNCHANGED <<src, pos, leftover, crc, out, input, parser, rows>>

\* PngColor::parse on the drawn row
ColorParseCall ==
    /\ phase = "made"
    /\ IF ColorParsePanics(input.kind, input.depth, input.data)
       THEN /\ phase' = "panicked"
            /\ res' = Panic("not yet implemented")
            /\ out' = <<>>
       ELSE LET colors == ColorParse(input.kind, input.depth, input.data)
            IN  /\ phase' = "parsed"
                /\ res' = Ok(Len(colors))
                /\ out' = colors
    /\ hist' = [hist EXCEPT !.lastOp = "color_parse"]
    /\ UNCHANGED <<src, pos, leftover, crc, input, parser, rows>>

\* the bytes a row is drawn from: 0b10011111 of the tests, and zero
RowBytes == {0, 159}

\* the bit depth bytes tried
DepthBytes == {0, 1, 2, 3, 4, 8, 16, 24, 32}

RowSeqs == UNION {[1..n -> RowBytes] : n \in 1..MaxData}

InitColor ==
    \E k \in ColorKinds, dp \in DepthBytes, row \in RowSeqs :
        /\ input = [kind |-> k, depth |-> dp, data |-> row]
        /\ src = <<>>
        /\ pos = 0
        /\ phase = "color"
        /\ leftover = 0
        /\ crc = INITIAL_CRC
        /\ out = <<>>
        /\ res = NoResult
        /\ hist = NoHist
        /\ parser = Idle
        /\ rows = Idle

NextColor == ColorNew \/ ColorParseCall

SpecColor == InitColor /\ [][NextColor]_vars

\* bit o of the row, counted from the most significant bit of the first byte
BitAt(data, o) == (data[(o \div 8) + 1] \div Pow2(7 - (o % 8))) % 2

\* the n-bit value whose first bit is bit o of the row
RECURSIVE BitsAt(_, _, _)
BitsAt(data, o, n) ==
    IF n = 0 THEN 0 ELSE 2 * BitsAt(data, o, n - 1) + BitAt(data, o + n - 1)

\* a depth-bit value on the 16-bit scale
Scale16(v, depth) == v * (U16_MAX \div (Pow2(depth) - 1))

\* the sample of channel c of pixel i that C10 describes
SampleAt(kind, depth, data, i, c) ==
    Scale16(BitsAt(data, i * channels(kind) * depth + c * depth, depth), depth)

ExpectedPixel(kind, depth, data, i) ==
    CASE kind = "Grey" ->
            LET g == SampleAt(kind, depth, data, i, 0) IN Color(g, g, g, U16_MAX)
      [] kind = "GreyAlpha" ->
            LET g == SampleAt(kind, depth, data, i, 0)
            IN  Color(g, g, g, SampleAt(kind, depth, data, i, 1))
      [] kind = "True" ->
            Color(SampleAt(kind, depth, data, i, 0), SampleAt(kind, depth, data, i, 1),
                  SampleAt(kind, depth, data, i, 2), U16_MAX)
      [] kind = "TrueAlpha" ->
            Color(SampleAt(kind, depth, data, i, 0), SampleAt(kind, depth, data, i, 1),
                  SampleAt(kind, depth, data, i, 2), SampleAt(kind, depth, data, i, 3))

\* C10: PngColor::parse returns, for every pixel i of the row, the colour made of
\* the depth-bit values at bit offsets i*channels*depth + c*depth from the most
\* significant bit of the first byte, on the 16-bit scale, channels in the order
\* grey/red, green, blue, alpha, alpha opaque where the model has none (the byte
\* 0b10011111 at depth 1: white, black, black, white, white, white, white, white).
C10_ParsePicksSamplesMsbFirst ==
    (phase = "parsed" /\ input.kind # "Indexed") =>
        \A p \in 1..Len(out) :
            out[p] = ExpectedPixel(input.kind, input.depth, input.data, p - 1)

----------------------------------------------------------------------------
(* Scanlines: filter.rs, parser.rs *)

\* TryFrom<u8> for FilterKind: TRUE when it is Ok (None, Sub, Up, Average, Paeth)
FilterKindOk(value) == value \in {0, 1, 2, 3, 4}

\* FilterKind::default()
FilterKindDefault == 0

\* usize::div_ceil
DivCeil(a, b) == (a + b - 1) \div b

\* PngParser::scanline_length
scanline_length(p) == p.width * DivCeil(data_len(p.kind, p.depth), 8) + 1

\* PngParser::parse, lines 129-133: the buffers before the first row
ParseBegin ==
    /\ phase = "constructed"
    /\ phase' = "rows"
    /\ rows' = [r |-> 0,
                prev |-> Zeros(scanline_length(parser)),
                line |-> Zeros(scanline_length(parser)),
                last_filter |-> -1]
    /\ out' = <<>>
    /\ res' = NoResult
    /\ hist' = [hist EXCEPT !.lastOp = "parse"]
    /\ UNCHANGED <<src, pos, leftover, crc, input, parser>>

\* one iteration of the row loop, lines 135-148; src is what the ZlibDecoder
\* yields, pos how much of it has been read
ParseRow ==
    /\ phase = "rows"
    /\ rows.r < parser.height
    /\ hist' = [hist EXCEPT !.lastOp = "row"]
    /\ UNCHANGED <<src, leftover, crc, input, parser>>
    /\ LET n == Len(rows.line)
       IN  IF ~CanReadExact(pos, n)
           THEN /\ pos' = Len(src)
                /\ res' = Eof
                /\ phase' = "returned"
                /\ rows' = [rows EXCEPT !.last_filter = -1]
                /\ out' = out
           ELSE
           LET line == Peek(pos, n)
               filter_kind == line[1]
               data == SubSeq(line, 2, n)
           IN  /\ pos' = pos + n
               /\ IF ~FilterKindOk(filter_kind)
                  THEN /\ res' = Err("InvalidData", "Unknown filter type")
                       /\ phase' = "returned"
                       /\ rows' = [rows EXCEPT !.line = line, !.last_filter = filter_kind]
                       /\ out' = out
                  ELSE IF filter_kind # FilterKindDefault
                  THEN /\ res' = Panic("assertion failed: filter_kind == FilterKind::default()")
                       /\ phase' = "panicked"
                       /\ rows' = [rows EXCEPT !.line = line, !.last_filter = filter_kind]
                       /\ out' = out
                  ELSE IF ColorParsePanics(parser.kind, parser.depth, data)
                  THEN /\ res' = Panic("not yet implemented")
                       /\ phase' = "panicked"
                       /\ rows' = [rows EXCEPT !.line = line, !.last_filter = filter_kind]
                       /\ out' = out
                  ELSE
                  LET colors == ColorParse(parser.kind, parser.depth, data)
                  IN  IF Len(colors) < parser.width
                      THEN /\ res' = Panic("range end index out of range")
                           /\ phase' = "panicked"
                           /\ rows' = [rows EXCEPT !.line = line,
                                                   !.last_filter = filter_kind]
                           /\ out' = out
                      ELSE /\ res' = NoResult
                           /\ phase' = "rows"
                           /\ out' = out \o SubSeq(colors, 1, parser.width)
                           /\ rows' = [r |-> rows.r + 1, prev |-> line,
                                       line |-> rows.prev, last_filter |-> filter_kind]

\* after the last row, line 157: todo!()
ParseEnd ==
    /\ phase = "rows"
    /\ rows.r = parser.height
    /\ phase' = "panicked"
    /\ res' = Panic("not yet implemented")
    /\ hist' = [hist EXCEPT !.lastOp = "parse_end"]
    /\ UNCHANGED <<src, pos, leftover, crc, out, input, parser, rows>>

(* The decompressed streams handed to parse: for an image of the drawn width,
   height and colour, height scanlines, each a filter-type byte and the packed
   samples of a row, ceil(width * channels * depth / 8) bytes, all of one
   value. *)

ValidColors ==
    {c \in ColorKinds \X {1, 2, 4, 8, 16} : PngColorNewOk(c[1], c[2])}

\* bytes of packed samples in a row of the format
RowDataLen(width, kind, depth) == DivCeil(width * channels(kind) * depth, 8)

RECURSIVE Scanlines(_, _)
Scanlines(i, y) ==
    IF y > i.height THEN <<>>
    ELSE <<i.filters[y]>>
         \o [x \in 1..RowDataLen(i.width, i.kind, i.depth) |-> i.fill]
         \o Scanlines(i, y + 1)

InitParse ==
    \E w \in 0..MaxWidth, h \in 0..MaxHeight, c \in ValidColors, b \in RowBytes :
    \E f \in [1..h -> 0..MaxFilter] :
        /\ input = [width |-> w, height |-> h, kind |-> c[1], depth |-> c[2],
                    filters |-> f, fill |-> b]
        /\ parser = [width |-> w, height |-> h, kind |-> c[1], depth |-> c[2],
                     interlace_method |-> 0, compression_method |-> 0]
        /\ src = Scanlines(input, 1)
        /\ pos = 0
        /\ phase = "constructed"
        /\ leftover = 0
        /\ crc = INITIAL_CRC
        /\ out = <<>>
        /\ res = NoResult
        /\ hist = NoHist
        /\ rows = Idle

NextParse == ParseBegin \/ ParseRow \/ ParseEnd

SpecParse == InitParse /\ [][NextParse]_vars

ParseEnded == phase \in {"returned", "panicked"}

AllFiltersNone(i) == \A y \in 1..i.height : i.filters[y] = 0

\* C6: parse on a valid non-interlaced stream whose scanlines all have filter
\* type None returns Ok with width * height pixels, row-major; a 1x1 image whose
\* only sample is zero gives the one pixel (0, 0, 0, 65535).
C6_ParseReturnsImage ==
    (ParseEnded /\ input.width > 0 /\ input.height > 0 /\ AllFiltersNone(input)) =>
        /\ res.tag = "ok"
        /\ Len(out) = input.width * input.height
        /\ (input.width = 1 /\ input.height = 1 /\ input.fill = 0)
              => out = <<Color(0, 0, 0, U16_MAX)>>

\* bytes per complete pixel, rounded up
Bpp(kind, depth) == DivCeil(data_len(kind, depth), 8)

At(row, x) == IF x < 1 THEN 0 ELSE row[x]

Abs(x) == IF x < 0 THEN -x ELSE x

\* closest of a, b, c to a + b - c, ties in the order a, b, c
PaethPredict(a, b, c) ==
    LET pa == Abs(b - c)
        pb == Abs(a - c)
        pc == Abs(a + b - 2 * c)
    IN  IF pa <= pb /\ pa <= pc THEN a ELSE IF pb <= pc THEN b ELSE c

\* the row that filter type ft reconstructs from the filtered bytes f and the
\* previous reconstructed row u, modulo 256
RECURSIVE Reconstruct(_, _, _, _, _)
Reconstruct(ft, f, u, bpp, n) ==
    IF n = 0 THEN <<>>
    ELSE LET r == Reconstruct(ft, f, u, bpp, n - 1)
             a == At(r, n - bpp)
             b == u[n]
             c == At(u, n - bpp)
             pred == CASE ft = 0 -> 0
                       [] ft = 1 -> a
                       [] ft = 2 -> b
                       [] ft = 3 -> (a + b) \div 2
                       [] ft = 4 -> PaethPredict(a, b, c)
         IN  Append(r, (f[n] + pred) % 256)

\* C8: a scanline whose filter-type byte is 0..4 is reconstructed by that type's
\* rule against the previous reconstructed row (an all-zero row against an
\* all-zero row stays all zero) and decoding goes on with the next row; only a
\* byte above 4 ends decoding, with a format error.
C8_AllFiveFiltersReconstruct ==
    (hist.lastOp = "row" /\ rows.last_filter >= 0) =>
        IF rows.last_filter <= 4
        THEN /\ phase = "rows"
             /\ Tail(rows.prev) =
                   Reconstruct(rows.last_filter, Tail(rows.prev), Tail(rows.line),
                               Bpp(parser.kind, parser.depth), Len(rows.prev) - 1)
        ELSE res.tag = "err"

\* C9: the bytes parse reads per scanline number ceil(width * channels *
\* bit_depth / 8) + 1, also for bit depths 1, 2 and 4 with width above 1.
C9_ScanlineLengthIsPackedRow ==
    (phase = "rows" /\ parser.width > 0) =>
        Len(rows.line) = RowDataLen(parser.width, parser.kind, parser.depth) + 1

----------------------------------------------------------------------------
(* PngParser::new: parser.rs, color_kind.rs, filter.rs *)

\* TryFrom<u8> for ColorKind: the kind, or "none" when it is Err
ColorKindTryFrom(value) ==
    CASE value = 0 -> "Grey"
      [] value = 2 -> "True"
      [] value = 3 -> "Indexed"
      [] value = 4 -> "GreyAlpha"
      [] value = 6 -> "TrueAlpha"
      [] OTHER -> "none"

\* TryFrom<u8> for Filter: TRUE when it is Ok (Adaptive)
FilterOk(value) == value = 0

\* lines 85-89 and 97-101: peek the kind of the chunk at p and seek back; then
\* the while loop, lines 91-102.  The result and the cursor afterwards.
RECURSIVE SkipToIdat(_)
SkipToIdat(p) ==
    IF ~CanReadExact(p + 4, 4)
    THEN [ret |-> Eof, p |-> Len(src)]
    ELSE
    LET chunk_kind == Peek(p + 4, 4)
    IN  IF ~ChunkKindOk(chunk_kind)
        THEN [ret |-> Err("InvalidData", "Invalid chunk type"), p |-> p + 8]
        ELSE IF chunk_kind = IDAT
        THEN [ret |-> Ok(0), p |-> p]
        ELSE IF ~critical(chunk_kind)
        THEN [ret |-> Panic("assertion failed: chunk_kind.critical()"), p |-> p]
        ELSE LET r == ChunkRead(p)
             IN  IF r.ret.tag # "ok"
                 THEN [ret |-> r.ret, p |-> r.p]
                 ELSE SkipToIdat(r.p)

\* PngParser::new on the stream src: the result, the cursor, and the fields
ParserNewResult ==
    LET none == [ret |-> NoResult, p |-> 0, parser |-> Idle, leftover |-> 0]
    IN
    IF ~CanReadExact(0, 8)
    THEN [none EXCEPT !.ret = Eof, !.p = Len(src)]
    ELSE IF Peek(0, 8) # PNG_SIG
    THEN [none EXCEPT !.ret = Err("InvalidData", "PNG missing signature"), !.p = 8]
    ELSE
    LET h == ChunkRead(8)
    IN  IF h.ret.tag # "ok"
        THEN [none EXCEPT !.ret = h.ret, !.p = h.p]
        ELSE IF h.chunk.kind # IHDR \/ Len(h.chunk.data) # 13
        THEN [none EXCEPT !.ret = Err("InvalidData", "PNG didn't start with expected header"),
                          !.p = h.p]
        ELSE
        LET header_data == h.chunk.data
            width == u32_from_be_bytes(SubSeq(header_data, 1, 4))
            height == u32_from_be_bytes(SubSeq(header_data, 5, 8))
            bit_depth == header_data[9]
            color_kind == ColorKindTryFrom(header_data[10])
            compression_method == header_data[11]
            interlace_method == header_data[13]
        IN  IF color_kind = "none"
            THEN [none EXCEPT !.ret = Err("InvalidData", "Unknown color kind"), !.p = h.p]
            ELSE IF ~PngColorNewOk(color_kind, bit_depth)
            THEN [none EXCEPT !.ret = Err("InvalidData", "Invalid color type/bit depth combination"), !.p = h.p]
            ELSE IF ~FilterOk(header_data[12])
            THEN [none EXCEPT !.ret = Err("InvalidData", "Unknown filter method"), !.p = h.p]
            ELSE IF compression_method # 0
            THEN [none EXCEPT !.ret = Panic("assertion failed: compression_method == 0"),
                              !.p = h.p]
            ELSE
            LET s == SkipToIdat(h.p)
            IN  IF s.ret.tag # "ok"
                THEN [none EXCEPT !.ret = s.ret, !.p = s.p]
                ELSE \* ChunkReader::new on the IDAT chunk at s.p
                     [ret |-> Ok(0),
                      p |-> s.p + 8,
                      leftover |-> u32_from_be_bytes(Peek(s.p, 4)),
                      parser |-> [width |-> width, height |-> height,
                                  kind |-> color_kind, depth |-> bit_depth,
                                  interlace_method |-> interlace_method,
                                  compression_method |-> compression_method]]

ParserNew ==
    /\ phase = "start"
    /\ LET r == ParserNewResult
       IN  /\ res' = r.ret
           /\ pos' = r.p
           /\ parser' = r.parser
           /\ leftover' = r.leftover
           /\ phase' = CASE r.ret.tag = "ok" -> "constructed"
                         [] r.ret.tag = "panic" -> "panicked"
                         [] OTHER -> "failed"
    /\ hist' = [hist EXCEPT !.lastOp = "parser_new"]
    /\ UNCHANGED <<src, crc, out, input, rows>>

(* The streams handed to PngParser::new: the signature, IHDR with the drawn
   header fields, the drawn chunks of one data byte each (one of them may store
   a wrong CRC), one IDAT of IdatLen bytes, IEND. *)

\* an unrecognised ancillary kind, tEXt, and an unrecognised critical kind, AaAA
TEXT == <<116, 69, 88, 116>>
AAAA == <<65, 97, 65, 65>>

MiddleKinds == {PLTE, TEXT, AAAA}

MiddleData == <<7>>

\* bytes in that IDAT chunk
IdatLen == 2

ValidHdr ==
    [width |-> 1, height |-> 1, depth |-> 8, ctype |-> 0, comp |-> 0, filter |-> 0,
     interlace |-> 0]

Hdrs ==
    [width : 0..1, height : 0..1, depth : {1, 3, 8, 16}, ctype : {0, 1, 2, 3, 4, 6},
     comp : {0, 1}, filter : {0, 1}, interlace : {0, 1, 2}]

HeaderData(h) ==
    BeBytes(h.width) \o BeBytes(h.height)
    \o <<h.depth, h.ctype, h.comp, h.filter, h.interlace>>

Serialize(kind, data, bad) ==
    BeBytes(Len(data)) \o kind \o data
    \o (IF bad THEN Xor32(ChunkCrc(kind, data), <<0, 0, 0, 1>>) ELSE ChunkCrc(kind, data))

RECURSIVE SerializeMiddle(_, _, _)
SerializeMiddle(middle, corrupt, k) ==
    IF k > Len(middle) THEN <<>>
    ELSE Serialize(middle[k], MiddleData, corrupt = k)
         \o SerializeMiddle(middle, corrupt, k + 1)

NewStream(i) ==
    PNG_SIG \o Serialize(IHDR, HeaderData(i.hdr), FALSE)
    \o SerializeMiddle(i.middle, i.corrupt, 1)
    \o Serialize(IDAT, [j \in 1..IdatLen |-> DataByte(1, j)], FALSE)
    \o IendChunk

\* offset of the first IDAT chunk's length field
IdatOffset(i) == 8 + (12 + 13) + Len(i.middle) * (12 + Len(MiddleData))

\* the valid header with every bit-depth byte and every colour type of the format
DepthHdrs ==
    {[ValidHdr EXCEPT !.depth = dp, !.ctype = t] : dp \in 0..255, t \in {0, 2, 3, 4, 6}}

MiddleSeqs == UNION {[1..n -> MiddleKinds] : n \in 0..MaxMiddle}

InitNew ==
    \E h \in Hdrs \cup DepthHdrs, m \in MiddleSeqs :
    \E c \in 0..Len(m) :
        /\ (IF m = <<>> THEN TRUE ELSE h = ValidHdr)
        /\ input = [hdr |-> h, middle |-> m, corrupt |-> c]
        /\ src = NewStream(input)
        /\ pos = 0
        /\ phase = "start"
        /\ leftover = 0
        /\ crc = INITIAL_CRC
        /\ out = <<>>
        /\ res = NoResult
        /\ hist = NoHist
        /\ parser = Idle
        /\ rows = Idle

NextNew == ParserNew

SpecNew == InitNew /\ [][NextNew]_vars

Unrecognised(kind) == kind \notin {IHDR, PLTE, IDAT, IEND}

\* bit 5 of the first byte of the kind is set
Ancillary(kind) == (kind[1] \div 32) % 2 = 1

\* C7: on a stream with a valid header, PngParser::new fails when an
\* unrecognised critical chunk comes before the first IDAT, and when only
\* unrecognised ancillary chunks come before it, it skips them and succeeds
\* with the bridge starting at that IDAT's length field.
C7_SkipAncillaryRejectCritical ==
    (hist.lastOp = "parser_new" /\ input.hdr = ValidHdr /\ input.corrupt = 0) =>
        /\ (\E k \in 1..Len(input.middle) :
               Unrecognised(input.middle[k]) /\ ~Ancillary(input.middle[k]))
              => res.tag = "err"
        /\ (\A k \in 1..Len(input.middle) :
               Unrecognised(input.middle[k]) /\ Ancillary(input.middle[k]))
              => /\ res.tag = "ok"
                 /\ pos = IdatOffset(input) + 8
                 /\ leftover = IdatLen

----------------------------------------------------------------------------
(* The 16-bit normalisation of a sample: color_kind.rs, lines 55-61 *)

\* the bit depths PngColor::new lets through
BitDepths == {1, 2, 4, 8, 16}

\* 16-bit samples tried (at depths up to 8 every sample is tried)
WideSamples == {0, 1, 255, 256, 21845, 43690, 65534, 65535}

SamplesOf(depth) == IF depth = 16 THEN WideSamples ELSE 0..(Pow2(depth) - 1)

\* lines 55-61 on the masked and shifted sample input.v
NormaliseCall ==
    /\ phase = "sample"
    /\ phase' = "normalised"
    /\ out' = <<Normalise(input.v, input.depth)>>
    /\ res' = Ok(1)
    /\ hist' = [hist EXCEPT !.lastOp = "normalise"]
    /\ UNCHANGED <<src, pos, leftover, crc, input, parser, rows>>

InitNorm ==
    \E dp \in BitDepths :
    \E v \in SamplesOf(dp) :
        /\ input = [depth |-> dp, v |-> v]
        /\ src = <<>>
        /\ pos = 0
        /\ phase = "sample"
        /\ leftover = 0
        /\ crc = INITIAL_CRC
        /\ out = <<>>
        /\ res = NoResult
        /\ hist = NoHist
        /\ parser = Idle
        /\ rows = Idle

NextNorm == NormaliseCall

SpecNorm == InitNorm /\ [][NextNorm]_vars

\* C11: the bit-doubling normalisation of a sample v of depth d in {1, 2, 4, 8,
\* 16} is v * 65535 / (2^d - 1) (2^d - 1 divides 65535 at these depths): 0 goes
\* to 0, the largest sample to 65535, and at depth 2 the samples 1, 2, 3 go to
\* 0x5555, 0xAAAA, 0xFFFF.
C11_NormaliseIsExactScaling ==
    phase = "normalised" =>
        /\ out[1] = input.v * (U16_MAX \div (Pow2(input.depth) - 1))
        /\ input.v = 0 => out[1] = 0
        /\ input.v = Pow2(input.depth) - 1 => out[1] = U16_MAX
        /\ (input.depth = 2 /\ input.v = 1) => out[1] = 21845
        /\ (input.depth = 2 /\ input.v = 2) => out[1] = 43690
        /\ (input.depth = 2 /\ input.v = 3) => out[1] = U16_MAX

\* the depth-2 sample 0b01 has been normalised to 0x5555
C11_Witness ==
    /\ phase = "normalised"
    /\ input.depth = 2 /\ input.v = 1
    /\ out = <<21845>>

\* the bit depths the format allows with each colour model
AllowedDepths(kind) ==
    CASE kind = "Grey" -> {1, 2, 4, 8, 16}
      [] kind \in {"GreyAlpha", "True", "TrueAlpha"} -> {8, 16}
      [] kind = "Indexed" -> {1, 2, 4, 8}

\* C12: for every colour model and every bit-depth byte 0..255, PngColor::new
\* succeeds exactly when the depth is in the model's allowed set (so depth 3 is
\* rejected with every model and depth 16 with Indexed), and PngParser::new
\* returns the rejection as an InvalidData error; seen on streams whose header is
\* valid but for the depth.
C12_NewAcceptsExactlyAllowedDepths ==
    (/\ hist.lastOp = "parser_new"
     /\ input.middle = <<>>
     /\ input.hdr.comp = 0 /\ input.hdr.filter = 0
     /\ ColorKindTryFrom(input.hdr.ctype) # "none") =>
        LET kind == ColorKindTryFrom(input.hdr.ctype)
        IN  IF input.hdr.depth \in AllowedDepths(kind)
            THEN /\ res.tag = "ok"
                 /\ parser.kind = kind
                 /\ parser.depth = input.hdr.depth
            ELSE /\ res.tag = "err"
                 /\ res.err = "InvalidData"
                 /\ res.msg = "Invalid color type/bit depth combination"
                 /\ parser = Idle

\* PngParser::new has rejected an Indexed header of bit depth 16
C12_Witness ==
    /\ hist.lastOp = "parser_new"
    /\ input.hdr = [ValidHdr EXCEPT !.depth = 16, !.ctype = 3]
    /\ res.tag = "err" /\ res.err = "InvalidData"

\* C13: PngParser::new returns a format error, not a parser and not a panic,
\* for every header whose width is 0, whose height is 0, whose compression
\* method or filter method is not 0, or whose interlace method is neither 0 nor
\* 1; no parser exists for such a header.
C13_BadHeaderIsFormatError ==
    (/\ hist.lastOp = "parser_new"
     /\ \/ input.hdr.width = 0
        \/ input.hdr.height = 0
        \/ input.hdr.comp # 0
        \/ input.hdr.filter # 0
        \/ input.hdr.interlace \notin {0, 1}) =>
        /\ res.tag = "err"
        /\ res.err = "InvalidData"
        /\ parser = Idle

----------------------------------------------------------------------------
(* Chunk::read on one serialized chunk: chunk.rs *)

\* Chunk::read on the source from its start
ChunkReadCall ==
    /\ phase = "chunk"
    /\ phase' = "read"
    /\ LET r == ChunkRead(pos)
       IN  /\ res' = r.ret
           /\ pos' = r.p
           /\ out' = IF r.ret.tag = "ok" THEN <<r.chunk>> ELSE <<>>
    /\ hist' = [hist EXCEPT !.lastOp = "chunk_read"]
    /\ UNCHANGED <<src, leftover, crc, input, parser, rows>>

(* The sources handed to Chunk::read: the serialization of a kind and data
   (length, kind, data, CRC-32 of kind and data), whole, or with its bit `flip`
   inverted, bits counted from 1 at the most significant bit of the first
   byte; flip = 0 is the serialization itself. *)

\* I0AT and ID@T: kinds with a byte that is no letter
I0AT == <<73, 48, 65, 84>>
IDAtT == <<73, 68, 64, 84>>

RoundKinds == {IHDR, IDAT, IEND, TEXT, I0AT, IDAtT}

RoundData == UNION {[1..n -> RowBytes] : n \in 0..MaxLen}

FlipBit(bytes, k) ==
    IF k = 0 THEN bytes
    ELSE [x \in 1..Len(bytes) |->
            IF x = ((k - 1) \div 8) + 1
            THEN BitXor(bytes[x], Pow2(7 - ((k - 1) % 8)))
            ELSE bytes[x]]

InitRound ==
    \E k \in RoundKinds, dt \in RoundData :
    \E f \in 0..(8 * (12 + Len(dt))) :
        /\ input = [kind |-> k, data |-> dt, flip |-> f]
        /\ src = FlipBit(Serialize(k, dt, FALSE), f)
        /\ pos = 0
        /\ phase = "chunk"
        /\ leftover = 0
        /\ crc = INITIAL_CRC
        /\ out = <<>>
        /\ res = NoResult
        /\ hist = NoHist
        /\ parser = Idle
        /\ rows = Idle

NextRound == ChunkReadCall

SpecRound == InitRound /\ [][NextRound]_vars

IsLetter(v) == (v >= 65 /\ v <= 90) \/ (v >= 97 /\ v <= 122)

AllLetters(kind) == \A x \in 1..4 : IsLetter(kind[x])

C15_KindMustBeLetters ==
    (phase = "read" /\ input.flip = 0) =>
        /\ ChunkKindOk(input.kind) <=> AllLetters(input.kind)
        /\ ~AllLetters(input.kind) => (res.tag = "err" /\ res.err = "InvalidData")

----------------------------------------------------------------------------
(* Further properties of the bridge, under SpecBridge *)

\* C16: end-of-stream is terminal: once leftover = 0, a read call returns
\* Ok(0), takes nothing from the source and leaves leftover and crc as they
\* are, whatever the buffer.
C16_DoneIsTerminal ==
    [][(phase = "open" /\ leftover = 0) =>
          /\ res' = Ok(0)
          /\ pos' = pos
          /\ leftover' = 0
          /\ crc' = crc
          /\ out' = out
          /\ phase' = "open"]_vars

\* a read was called on the done bridge of a whole stream (a read that enters
\* with leftover > 0 and returns Ok(0) leaves leftover above 0)
C16_Witness ==
    /\ WellFormed(input) /\ NonZeroLens(input)
    /\ phase = "open" /\ hist.lastOp = "read"
    /\ leftover = 0 /\ res = Ok(0)
    /\ pos = IendHeaderEnd(input.lens)

\* C17: with a non-empty buffer read returns Ok(0) only when the stream is
\* done; when the source is at its end while the current IDAT chunk has bytes
\* undelivered, the read returns an error.
C17_ZeroOnlyWhenDone ==
    (phase = "open" /\ hist.lastOp = "read" /\ res = Ok(0)) => leftover = 0

\* the bytes delivered before chunk k
Before(lens, k) == Len(PayloadsUpTo(lens, k - 1))

\* chunk k is the current one: leftover and crc are those of chunk k with the
\* delivered bytes behind the earlier chunks counted as its own
CurrentIs(k) ==
    LET mine == Len(out) - Before(input.lens, k)
    IN  /\ mine >= 0 /\ mine <= input.lens[k]
        /\ leftover = input.lens[k] - mine
        /\ crc = CrcUpdate(INITIAL_CRC, SubSeq(Payload(input.lens, k), 1, mine))

\* the terminator has been adopted
AtTerminator ==
    /\ pos >= IendHeaderEnd(input.lens)
    /\ leftover = 0
    /\ crc = INITIAL_CRC

============================================================================
